---- MODULE Spec2Model ----
(***************************************************************************)
(* Asset detection in gaba: AssetsDetectionController (poll, detectAssets, *)
(* detectTokens, detectCollectibles, getOwnerCollectibles),                *)
(* TokenBalancesController (poll, updateBalances) and ComposableController *)
(* as state machines over the JavaScript event loop.  One action is one    *)
(* run of synchronous code between two awaits.  A behaviour constructs one *)
(* of the controllers; the variables of the others keep the values they    *)
(* have before construction.                                               *)
(*                                                                         *)
(* Strings are TLA+ strings.  Addresses come in several casings and        *)
(* toChecksumAddress maps each casing to the checksum casing; token ids    *)
(* are strings and Number() parses them, NaN included.                     *)
(***************************************************************************)
EXTENDS Integers, Sequences, FiniteSets, TLC

\* ------------------------------------------------------------------ bounds
\* detectAssets calls in one behaviour (the constructor's poll is the first)
MaxCycles == 2
\* upstream events and outside calls in one behaviour
MaxEvents == 1
\* items in one marketplace response
MaxReported == 2
\* updateBalances calls in one behaviour (the constructor's poll makes the first)
MaxRuns == 3
\* upstream events and outside calls to a TokenBalancesController
MaxBalanceEvents == 2
\* state updates of the children of a ComposableController
MaxUpdates == 3

\* --------------------------------------------------------------- constants
DEFAULT_INTERVAL == 180000
MAINNET == "mainnet"
\* Number() of a string that is no number; no token id is negative
NaN == -1

\* AssetsDetectionController
VARIABLES
    networkType,      \* config.networkType
    disabled,         \* BaseController.disabled
    selectedAddress,  \* config.selectedAddress
    interval,         \* config.interval
    configTokens,     \* config.tokens, an array of Token
    assetsState,      \* this.assetsState
    handle,           \* this.handle: 0, or the id of the last timer armed
    timers,           \* pending timers of the event loop
    pollAwaiting,     \* poll calls suspended at `await this.detectAssets()`
    cycleStart,       \* per detectAssets call: who made it, what held then
    tokenPass,        \* per detectAssets call: its detectTokens run
    collPass,         \* per detectAssets call: its detectCollectibles run
    last,             \* what the last step did to the outside world
    prev,             \* the last collectible pass that ran to its end
    events            \* upstream events and outside calls so far

\* TokenBalancesController
VARIABLES
    tbDisabled,         \* BaseController.disabled
    tbInterval,         \* config.interval
    tbTokens,           \* config.tokens: the addresses of its Token objects
    balanceError,       \* per Token object: its balanceError field
    tbSelectedAddress,  \* this.selectedAddress
    contractBalances,   \* state.contractBalances
    tbHandle,           \* this.handle: 0, or the id of the last timer armed
    tbTimers,           \* pending timers of the event loop
    tbPolls,            \* poll calls suspended at `await safelyExecute(...)`
    updateRuns,         \* per updateBalances call: its locals and progress
    tbLast,             \* what the last step did
    tbEvents            \* upstream events and outside calls so far

\* ComposableController
VARIABLES
    controllers,      \* this.controllers: the children, each a name and a state
    composed,         \* this.state
    updates           \* child state updates so far

detectionVars ==
    <<networkType, disabled, selectedAddress, interval, configTokens,
      assetsState, handle, timers, pollAwaiting, cycleStart, tokenPass,
      collPass, last, prev, events>>

balancesVars ==
    <<tbDisabled, tbInterval, tbTokens, balanceError, tbSelectedAddress,
      contractBalances, tbHandle, tbTimers, tbPolls, updateRuns, tbLast,
      tbEvents>>

composableVars == <<controllers, composed, updates>>

vars == <<detectionVars, balancesVars, composableVars>>

\* ----------------------------------------------------------------- strings
\* <<lower case, checksum case>> of every address of the model
AddressForms ==
    { <<"0xaa", "0xAa">>, <<"0xbb", "0xBb">>, <<"0xcc", "0xCc">>,
      <<"0xdd", "0xDd">>, <<"0xee", "0xEe">> }

toLowerCase(s) ==
    IF \E f \in AddressForms : s \in {f[1], f[2]}
    THEN (CHOOSE f \in AddressForms : s \in {f[1], f[2]})[1]
    ELSE s

\* ethereumjs-util toChecksumAddress: lower-cases, then sets the case of each
\* letter from the hash
toChecksumAddress(s) ==
    IF \E f \in AddressForms : f[1] = toLowerCase(s)
    THEN (CHOOSE f \in AddressForms : f[1] = toLowerCase(s))[2]
    ELSE s

\* JavaScript Number(string) on the token ids of the model
Number(s) ==
    CASE s = "1" -> 1
      [] s = "01" -> 1
      [] s = "2" -> 2
      [] OTHER -> NaN

\* JavaScript ===  on numbers: NaN equals nothing, itself included
StrictEqNum(a, b) == a # NaN /\ b # NaN /\ a = b

\* ---------------------------------------------------------------- registry
\* @metamask/contract-metadata: address -> { erc20, ... }
contractMap ==
    [a \in {"0xAa", "0xBb", "0xCc"} |-> [erc20 |-> a # "0xCc", symbol |-> a]]

\* the property names of an array: its indices and "length"
IndexKey(i) == CASE i = 1 -> "0" [] i = 2 -> "1" [] i = 3 -> "2" [] OTHER -> "n"
ArrayKeys(arr) == { IndexKey(i) : i \in 1..Len(arr) } \cup {"length"}

\* JavaScript `key in arr`
InArray(key, arr) == key \in ArrayKeys(arr)

\* the order `for (const address in contractMap)` visits the registry in
RegistryOrder == <<"0xAa", "0xBb", "0xCc">>

\* ------------------------------------------------------------ input domains
Owners == {"", "0xO1", "0xO2"}
NetworkTypes == {MAINNET, "ropsten"}
\* the argument of poll(interval?): 0 stands for an omitted argument
PollIntervals == {0, 1000}

Collectible(a, n) == [address |-> a, tokenId |-> n]
Token(a) == [address |-> a, symbol |-> contractMap[a].symbol]

\* what the asset store can hold: it stores checksum addresses
StoreCollectibles == {Collectible("0xDd", 1), Collectible("0xDd", 2)}
StoreIgnoredCollectibles == {Collectible("0xDd", 1)}
StoreIgnoredTokens == {Token("0xAa")}
StoreTokens == {<<>>, <<Token("0xAa")>>}

\* what the marketplace can report: { token_id, asset_contract: { address } }
ApiCollectible(a, id) == [address |-> a, token_id |-> id]
ReportedUniverse ==
    {ApiCollectible("0xdd", "1"), ApiCollectible("0xDd", "2"),
     ApiCollectible("0xDd", "x")}
Responses == {r \in SUBSET ReportedUniverse : Cardinality(r) <= MaxReported}

\* ------------------------------------------------------- asset store (spec)
\* addTokens: each token is stored under its checksum address, once
StoreAddTokens(tokens, batch) ==
    LET stored == {tokens[i].address : i \in 1..Len(tokens)}
        new == SelectSeq(RegistryOrder,
                         LAMBDA a : a \in {toChecksumAddress(b) : b \in batch}
                                    /\ a \notin stored)
    IN tokens \o [i \in 1..Len(new) |-> Token(new[i])]

\* addCollectible: stored under its checksum address, once per (address, id)
StoreAddCollectible(colls, address, tokenId) ==
    colls \cup {Collectible(toChecksumAddress(address), tokenId)}

\* removeCollectible: drops the entry with that checksum address and id
StoreRemoveCollectible(colls, address, tokenId) ==
    {c \in colls : ~(c.address = toChecksumAddress(address)
                     /\ StrictEqNum(c.tokenId, tokenId))}

StoreRemoveAll(colls, removed) ==
    {c \in colls : \A r \in removed :
        c \in StoreRemoveCollectible({c}, r.address, r.tokenId)}


\* ------------------------------------------------------------ pass records
\* A pass record holds the locals of one run of detectTokens or
\* detectCollectibles while it is suspended at an await, and what the run has
\* done so far.  stage: "skipped" (a gate returned), "fetching" (the external
\* fetch is in flight), "adding" (the store's add calls are in flight),
\* "failed" (an exception ended the run inside safelyExecute, add calls still
\* in flight), "over" (nothing of the run is left).

\* a collectible pass that ran to its end: what it was told and what it left
NoRun == [valid |-> FALSE, reported |-> {}, ignoredSeen |-> {}, trackedAfter |-> {}]

TokenPassAt(stage) ==
    [stage |-> stage, owner |-> "", candidates |-> {}, batches |-> <<>>]

CollPassAt(stage) ==
    [stage |-> stage, owner |-> "", snapshot |-> {}, toRemove |-> {},
     fetch |-> "none", reported |-> {}, ignoredSeen |-> {}, addCalls |-> {},
     pending |-> {}, follows |-> NoRun]

\* what one step did: the external calls it issued and the pass they belong
\* to (for a collectible pass: its snapshot, the answer of its fetch, the
\* addCollectible calls it has made); ended: "no", or how the step ended the
\* pass ("done", "tombstone", "threw")
NoStep ==
    [op |-> "none", cycle |-> 0, outcome |-> "none", ended |-> "no",
     fetch |-> "none", snapshot |-> {}, reported |-> {}, ignoredSeen |-> {},
     addCalls |-> {},
     removeCalls |-> {}, follows |-> NoRun, balances |-> {}, batches |-> <<>>,
     tokensBefore |-> <<>>]

\* ------------------------------------------------- AssetsDetectionController
isMainnet == ~(networkType # MAINNET \/ disabled)

\* detectTokens, the candidate list
tokensToDetect ==
    LET tokensAddresses == SelectSeq(configTokens, LAMBDA token : token.address # "")
    IN {address \in DOMAIN contractMap :
            contractMap[address].erc20 /\ ~InArray(address, tokensAddresses)}

\* detectTokens up to its first await: the balance fetch is issued
detectTokens ==
    IF ~isMainnet THEN TokenPassAt("skipped")
    ELSE IF selectedAddress = "" THEN TokenPassAt("skipped")
    ELSE [TokenPassAt("fetching") EXCEPT !.owner = selectedAddress,
                                         !.candidates = tokensToDetect]

\* detectCollectibles without the check of selectedAddress
detectCollectiblesAnyOwner ==
    IF ~isMainnet THEN CollPassAt("skipped")
    ELSE [CollPassAt("fetching") EXCEPT !.owner = selectedAddress,
                                        !.snapshot = assetsState.collectibles,
                                        !.toRemove = assetsState.collectibles,
                                        !.fetch = "pending"]

\* detectCollectibles up to its first await: the snapshot is taken and
\* getOwnerCollectibles has issued the ownership fetch
detectCollectibles ==
    IF ~isMainnet THEN CollPassAt("skipped")
    ELSE IF selectedAddress = "" THEN CollPassAt("skipped")
    ELSE [CollPassAt("fetching") EXCEPT !.owner = selectedAddress,
                                        !.snapshot = assetsState.collectibles,
                                        !.toRemove = assetsState.collectibles,
                                        !.fetch = "pending"]

\* detectAssets: it starts both passes and awaits neither
detectAssets ==
    IF ~isMainnet THEN <<TokenPassAt("skipped"), CollPassAt("skipped")>>
    ELSE <<detectTokens, detectCollectibles>>

\* what held when a detectAssets call started, and who called it
StartRecord(by) ==
    [by |-> by,
     mainnet |-> networkType = MAINNET,
     disabled |-> disabled,
     owner |-> selectedAddress]

Cycles == 1..Len(cycleStart)

TokenPassRunning(c) == tokenPass[c].stage \in {"fetching", "adding"}
CollPassRunning(c) == collPass[c].stage \in {"fetching", "adding"}

\* the run a collectible pass starting now follows: the last one that ran to
\* its end, if the tracked set is as it left it and no other pass is running
Follows ==
    IF /\ prev.valid
       /\ prev.trackedAfter = assetsState.collectibles
       /\ \A c \in Cycles : ~CollPassRunning(c)
    THEN prev ELSE NoRun

\* a detectAssets call, as a step: it reads the config as its caller left it
StartCycle(by) ==
    /\ cycleStart' = Append(cycleStart, StartRecord(by)')
    /\ tokenPass' = Append(tokenPass, detectAssets'[1])
    /\ collPass' = Append(collPass, [detectAssets'[2] EXCEPT !.follows = Follows])
    /\ last' = NoStep
    /\ UNCHANGED prev

\* the lookup with the address brought to lower case, not to checksum case
IgnoredTokenLowerCase(tokenAddress) ==
    /\ assetsState.ignoredTokens # {}
    /\ \E token \in assetsState.ignoredTokens :
          token.address = toLowerCase(tokenAddress)

\* the ignore-list lookup of detectTokens
IgnoredToken(tokenAddress) ==
    /\ assetsState.ignoredTokens # {}
    /\ \E token \in assetsState.ignoredTokens :
          token.address = toChecksumAddress(tokenAddress)

\* the lookup with the address compared as the marketplace spelled it
IgnoredCollectibleRawAddress(item) ==
    /\ assetsState.ignoredCollectibles # {}
    /\ \E c \in assetsState.ignoredCollectibles :
          /\ c.address = item.address
          /\ StrictEqNum(c.tokenId, Number(item.token_id))

\* the ignore-list lookup of detectCollectibles
IgnoredCollectible(item) ==
    /\ assetsState.ignoredCollectibles # {}
    /\ \E c \in assetsState.ignoredCollectibles :
          /\ c.address = toChecksumAddress(item.address)
          /\ StrictEqNum(c.tokenId, Number(item.token_id))

\* the filter of collectiblesToRemove: TRUE when c stays a removal candidate
KeepCandidate(c, item) ==
    ~(StrictEqNum(c.tokenId, Number(item.token_id))
      /\ c.address = toChecksumAddress(item.address))

FilterToRemove(toRemove, items) ==
    {c \in toRemove : \A item \in items : KeepCandidate(c, item)}

\* the arguments of the addCollectible call for a reported item
AddCall(item) == Collectible(item.address, Number(item.token_id))

\* getOwnerCollectibles: a rejected fetch (network error, timeout) is caught
\* and [] returned; a body that is no JSON throws out of response.json()
getOwnerCollectibles(outcome, assets) ==
    CASE outcome = "failed" -> [threw |-> FALSE, list |-> {}]
      [] outcome = "badjson" -> [threw |-> TRUE, list |-> {}]
      [] OTHER -> [threw |-> FALSE, list |-> assets]

\* ------------------------------------------- TokenBalancesController, records
\* the result of getBalanceOfAssetContract(token, owner), and the number 0
\* that updateBalances records for a query that failed
Balance(token, owner) == [token |-> token, owner |-> owner, failed |-> FALSE]
ZeroBalance(token) == [token |-> token, owner |-> "", failed |-> TRUE]

\* An updateBalances call: its locals while it is suspended at the await of a
\* balance query, and how far it is.  stage: "skipped" (disabled: it
\* returned at once), "querying" (the query for tokens[i], made for `owner`,
\* is in flight), "over" (it has published and returned).  failed: a query of
\* the run has thrown.
RunAt(stage) ==
    [stage |-> stage, by |-> "none", tokens |-> <<>>, i |-> 0, owner |-> "",
     newContractBalances |-> <<>>, failed |-> FALSE]

\* what one step of the TokenBalancesController did: the query it settled
\* (of which run, for which entry of the run's token list, how), the map the
\* run holds after it, and whether the run published it
TbNoStep ==
    [op |-> "none", run |-> 0, tokens |-> <<>>, i |-> 0, ok |-> TRUE,
     newContractBalances |-> <<>>, published |-> FALSE]

\* the TokenBalancesController before its construction
NoBalancesController ==
    /\ tbDisabled = FALSE
    /\ tbInterval = DEFAULT_INTERVAL
    /\ tbTokens = <<>>
    /\ balanceError = <<>>
    /\ tbSelectedAddress = ""
    /\ contractBalances = <<>>
    /\ tbHandle = 0
    /\ tbTimers = {}
    /\ tbPolls = {}
    /\ updateRuns = <<>>
    /\ tbLast = TbNoStep
    /\ tbEvents = 0

\* the ComposableController before its construction
NoComposableController ==
    /\ controllers = <<>>
    /\ composed = <<>>
    /\ updates = 0

\* ------------------------------------------------------------------ state
InitialAssetsStates ==
    [collectibles : SUBSET StoreCollectibles,
     ignoredCollectibles : SUBSET StoreIgnoredCollectibles,
     ignoredTokens : SUBSET StoreIgnoredTokens]

\* the state the constructor leaves: its poll() has run up to
\* `await this.detectAssets()`
Init ==
    /\ networkType = MAINNET
    /\ disabled = FALSE
    /\ selectedAddress \in {"", "0xO1"}
    /\ interval = DEFAULT_INTERVAL
    /\ configTokens = <<>>
    /\ assetsState \in InitialAssetsStates
    /\ handle = 0
    /\ timers = {}
    /\ pollAwaiting = {1}
    /\ cycleStart = <<StartRecord("poll")>>
    /\ tokenPass = <<detectAssets[1]>>
    /\ collPass = <<detectAssets[2]>>
    /\ last = NoStep
    /\ prev = NoRun
    /\ events = 0
    /\ NoBalancesController
    /\ NoComposableController

\* no microtask is pending: the event loop can take its next task
LoopIdle == pollAwaiting = {}

\* ------------------------------------------------------------------- poll
\* poll(interval) up to `await this.detectAssets()`; `fired` is the timer
\* whose callback is making the call, if any
PollToAwait(iv, fired) ==
    /\ Len(cycleStart) < MaxCycles
    /\ interval' = IF iv # 0 THEN iv ELSE interval
    /\ timers' = {t \in timers \ fired : handle = 0 \/ t.id # handle}
    /\ pollAwaiting' = pollAwaiting \cup {Len(cycleStart) + 1}
    /\ UNCHANGED <<networkType, disabled, selectedAddress, configTokens,
                   assetsState, handle>>
    /\ StartCycle("poll")
    /\ UNCHANGED <<balancesVars, composableVars>>

\* poll called from outside
PollCall(iv) ==
    /\ events < MaxEvents
    /\ events' = events + 1
    /\ PollToAwait(iv, {})

\* the timer callback: this.poll(this.config.interval)
TimerFires(t) ==
    /\ LoopIdle
    /\ t \in timers
    /\ PollToAwait(interval, {t})
    /\ UNCHANGED events

\* poll after `await this.detectAssets()`: the timer is armed
PollResume(p) ==
    /\ p \in pollAwaiting
    /\ \A q \in pollAwaiting : p <= q
    /\ handle' = p
    /\ timers' = timers \cup {[id |-> p, interval |-> interval]}
    /\ pollAwaiting' = pollAwaiting \ {p}
    /\ last' = [NoStep EXCEPT !.op = "arm", !.cycle = p]
    /\ UNCHANGED <<networkType, disabled, selectedAddress, interval,
                   configTokens, assetsState, cycleStart, tokenPass, collPass,
                   prev, events>>
    /\ UNCHANGED <<balancesVars, composableVars>>

\* ----------------------------------------------------------------- events
\* the onPreferencesStateChange listener
PreferencesStateChange(address) ==
    /\ events < MaxEvents
    /\ Len(cycleStart) < MaxCycles
    /\ address # selectedAddress
    /\ events' = events + 1
    /\ selectedAddress' = address
    /\ UNCHANGED <<networkType, disabled, interval, configTokens, assetsState,
                   handle, timers, pollAwaiting>>
    /\ StartCycle("account")
    /\ UNCHANGED <<balancesVars, composableVars>>

\* the onNetworkStateChange listener
NetworkStateChange(type) ==
    /\ events < MaxEvents
    /\ type # networkType
    /\ events' = events + 1
    /\ networkType' = type
    /\ last' = NoStep
    /\ UNCHANGED <<disabled, selectedAddress, interval, configTokens,
                   assetsState, handle, timers, pollAwaiting, cycleStart,
                   tokenPass, collPass, prev>>
    /\ UNCHANGED <<balancesVars, composableVars>>

\* BaseController.disabled set from outside
SetDisabled(flag) ==
    /\ events < MaxEvents
    /\ flag # disabled
    /\ events' = events + 1
    /\ disabled' = flag
    /\ last' = NoStep
    /\ UNCHANGED <<networkType, selectedAddress, interval, configTokens,
                   assetsState, handle, timers, pollAwaiting, cycleStart,
                   tokenPass, collPass, prev>>
    /\ UNCHANGED <<balancesVars, composableVars>>

\* the payloads of an asset-store change made by the user: one list changed
AssetPayloads ==
    LET now == [tokens |-> configTokens,
                collectibles |-> assetsState.collectibles,
                ignoredCollectibles |-> assetsState.ignoredCollectibles,
                ignoredTokens |-> assetsState.ignoredTokens]
    IN ({[now EXCEPT !.tokens = x] : x \in StoreTokens}
        \cup {[now EXCEPT !.collectibles = x] : x \in SUBSET StoreCollectibles}
        \cup {[now EXCEPT !.ignoredCollectibles = x] :
                 x \in SUBSET StoreIgnoredCollectibles}
        \cup {[now EXCEPT !.ignoredTokens = x] : x \in SUBSET StoreIgnoredTokens})
       \ {now}

\* the onAssetStateChange listener
AssetStateChange(payload) ==
    /\ events < MaxEvents
    /\ events' = events + 1
    /\ configTokens' = payload.tokens
    /\ assetsState' = [collectibles |-> payload.collectibles,
                       ignoredCollectibles |-> payload.ignoredCollectibles,
                       ignoredTokens |-> payload.ignoredTokens]
    /\ last' = NoStep
    /\ UNCHANGED <<networkType, disabled, selectedAddress, interval, handle,
                   timers, pollAwaiting, cycleStart, tokenPass, collPass, prev>>
    /\ UNCHANGED <<balancesVars, composableVars>>

\* ------------------------------------------------------------- token pass
\* the loop over the balance map: the tokens staged for addTokens
TokensToAdd(balances) ==
    {tokenAddress \in balances : ~IgnoredToken(tokenAddress)}

\* one addTokens call per staged token
AddTokensCallsPerToken(tokensToAdd) ==
    LET staged == SelectSeq(RegistryOrder, LAMBDA a : a \in tokensToAdd)
    IN [i \in 1..Len(staged) |-> {staged[i]}]

\* the addTokens calls of one pass, each with its batch
AddTokensCalls(tokensToAdd) ==
    IF tokensToAdd # {} THEN <<tokensToAdd>> ELSE <<>>

\* getAssetContractBalancesInSingleCall settles: `balances` are the addresses
\* it reports a balance for
BalancesReturn(c, threw, balances) ==
    /\ LoopIdle
    /\ c \in Cycles
    /\ tokenPass[c].stage = "fetching"
    /\ balances \subseteq tokenPass[c].candidates
    /\ threw => balances = {}
    /\ LET calls == IF threw THEN <<>> ELSE AddTokensCalls(TokensToAdd(balances))
       IN /\ tokenPass' =
               [tokenPass EXCEPT ![c] =
                   IF calls # <<>>
                   THEN [@ EXCEPT !.stage = "adding", !.batches = calls]
                   ELSE TokenPassAt("over")]
          /\ last' = [NoStep EXCEPT
                         !.op = "balances",
                         !.cycle = c,
                         !.outcome = IF threw THEN "failed" ELSE "ok",
                         !.ended = IF threw THEN "threw"
                                   ELSE IF calls = <<>> THEN "done" ELSE "no",
                         !.balances = balances,
                         !.batches = calls]
    /\ UNCHANGED <<networkType, disabled, selectedAddress, interval,
                   configTokens, assetsState, handle, timers, pollAwaiting,
                   cycleStart, collPass, prev, events>>
    /\ UNCHANGED <<balancesVars, composableVars>>

\* addTokens settles; the store has added the batch when it resolves, and its
\* change event has set config.tokens
AddTokensReturn(c, ok) ==
    /\ LoopIdle
    /\ c \in Cycles
    /\ tokenPass[c].stage = "adding"
    /\ tokenPass' = [tokenPass EXCEPT ![c] = TokenPassAt("over")]
    /\ configTokens' =
         IF ok
         THEN StoreAddTokens(configTokens,
                             UNION {tokenPass[c].batches[i] :
                                       i \in 1..Len(tokenPass[c].batches)})
         ELSE configTokens
    /\ last' = [NoStep EXCEPT
                   !.op = "addTokens",
                   !.cycle = c,
                   !.outcome = IF ok THEN "ok" ELSE "failed",
                   !.ended = IF ok THEN "done" ELSE "threw",
                   !.batches = tokenPass[c].batches,
                   !.tokensBefore = configTokens]
    /\ UNCHANGED <<networkType, disabled, selectedAddress, interval,
                   assetsState, handle, timers, pollAwaiting, cycleStart,
                   collPass, prev, events>>
    /\ UNCHANGED <<balancesVars, composableVars>>

\* ------------------------------------------------------- collectible pass
\* the tombstone step: one removeCollectible call per candidate left
TombstoneCalls(toRemove) == toRemove

\* a step of collectible pass c that leaves the pass record p and the store
\* holding colls.  A pass that is still "adding" with no call pending has its
\* Promise.all resolved: the tombstone step runs and the pass is over.
CollStep(c, op, outcome, p, colls) ==
    LET tomb == p.stage = "adding" /\ p.pending = {}
        removed == IF tomb THEN TombstoneCalls(p.toRemove) ELSE {}
        left == StoreRemoveAll(colls, removed)
        threw == p.stage = "failed" /\ collPass[c].stage # "failed"
        run == [valid |-> TRUE, reported |-> p.reported,
                ignoredSeen |-> p.ignoredSeen, trackedAfter |-> left]
    IN /\ collPass' =
            [collPass EXCEPT ![c] =
                IF tomb \/ (p.stage = "failed" /\ p.pending = {})
                THEN CollPassAt("over") ELSE p]
       /\ assetsState' = [assetsState EXCEPT !.collectibles = left]
       /\ prev' = IF tomb /\ p.fetch = "ok" THEN run ELSE prev
       /\ last' = [NoStep EXCEPT
                      !.op = op,
                      !.cycle = c,
                      !.outcome = outcome,
                      !.ended = IF tomb THEN "tombstone"
                                ELSE IF threw THEN "threw" ELSE "no",
                      !.fetch = p.fetch,
                      !.snapshot = p.snapshot,
                      !.reported = p.reported,
                      !.ignoredSeen = p.ignoredSeen,
                      !.addCalls = p.addCalls,
                      !.removeCalls = removed,
                      !.follows = p.follows]

\* the ownership fetch settles and the map callback runs for every item, each
\* up to its await of addCollectible
OwnerCollectiblesReturn(c, outcome, assets) ==
    /\ LoopIdle
    /\ c \in Cycles
    /\ collPass[c].stage = "fetching"
    /\ outcome # "ok" => assets = {}
    /\ LET got == getOwnerCollectibles(outcome, assets)
           ignored == {item \in got.list : IgnoredCollectible(item)}
           called == got.list \ ignored
           p == IF got.threw
                THEN [collPass[c] EXCEPT !.stage = "failed", !.fetch = outcome]
                ELSE [collPass[c] EXCEPT
                         !.stage = "adding",
                         !.fetch = outcome,
                         !.reported = got.list,
                         !.ignoredSeen = assetsState.ignoredCollectibles,
                         !.addCalls = {AddCall(item) : item \in called},
                         !.pending = called,
                         !.toRemove = FilterToRemove(@, ignored)]
       IN CollStep(c, "fetched", outcome, p, assetsState.collectibles)
    /\ UNCHANGED <<networkType, disabled, selectedAddress, interval,
                   configTokens, handle, timers, pollAwaiting, cycleStart,
                   tokenPass, events>>
    /\ UNCHANGED <<balancesVars, composableVars>>

\* one addCollectible call settles.  Resolved: the store holds the item and
\* the callback filters the candidates.  Rejected: Promise.all rejects and
\* the pass ends there; the other calls still settle.
AddCollectibleReturn(c, item, ok) ==
    /\ LoopIdle
    /\ c \in Cycles
    /\ item \in collPass[c].pending
    /\ LET colls == IF ok
                    THEN StoreAddCollectible(assetsState.collectibles,
                                             item.address, Number(item.token_id))
                    ELSE assetsState.collectibles
           p == [collPass[c] EXCEPT
                    !.pending = @ \ {item},
                    !.toRemove = IF ok THEN FilterToRemove(@, {item}) ELSE @,
                    !.stage = IF ok THEN @ ELSE "failed"]
       IN CollStep(c, "added", IF ok THEN "ok" ELSE "failed", p, colls)
    /\ UNCHANGED <<networkType, disabled, selectedAddress, interval,
                   configTokens, handle, timers, pollAwaiting, cycleStart,
                   tokenPass, events>>
    /\ UNCHANGED <<balancesVars, composableVars>>

\* ------------------------------------------------- TokenBalancesController
\* the token lists the asset store can publish; a Token object is known by its
\* address
TokenLists == {<<>>, <<"0xAa">>, <<"0xAa", "0xBb">>}
TokenObjects == {"0xAa", "0xBb"}

\* obj[key] = value
PutEntry(obj, key, value) ==
    [k \in DOMAIN obj \cup {key} |-> IF k = key THEN value ELSE obj[k]]

TbRuns == 1..Len(updateRuns)

\* the run has returned: the promise of updateBalances is resolved
RunReturned(r) == updateRuns[r].stage \in {"skipped", "over"}

\* the continuation of a poll whose updateBalances has returned is a pending
\* microtask; the event loop takes its next task when there is none
TbLoopIdle == \A p \in tbPolls : ~RunReturned(p)

\* updateBalances up to its first await: a disabled controller returns, an
\* empty token list is published at once, else the first query is made
updateBalances(by) ==
    IF tbDisabled THEN RunAt("skipped")
    ELSE IF tbTokens = <<>> THEN [RunAt("over") EXCEPT !.by = by]
    ELSE [RunAt("querying") EXCEPT !.by = by, !.tokens = tbTokens, !.i = 1,
                                   !.owner = tbSelectedAddress]

\* an updateBalances call, as a step: it reads the config as its caller left it
StartRun(by) ==
    LET run == updateBalances(by)'
    IN /\ updateRuns' = Append(updateRuns, run)
       /\ contractBalances' =
            IF run.stage = "over" THEN <<>> ELSE contractBalances
       /\ tbLast' = [TbNoStep EXCEPT !.op = "start",
                                     !.run = Len(updateRuns) + 1,
                                     !.published = run.stage = "over"]
       /\ UNCHANGED balanceError

\* poll(interval) up to `await safelyExecute(() => this.updateBalances())`
TbPollToAwait(iv, fired) ==
    /\ Len(updateRuns) < MaxRuns
    /\ tbInterval' = IF iv # 0 THEN iv ELSE tbInterval
    /\ tbTimers' = {t \in tbTimers \ fired : tbHandle = 0 \/ t.id # tbHandle}
    /\ tbPolls' = tbPolls \cup {Len(updateRuns) + 1}
    /\ UNCHANGED <<tbDisabled, tbTokens, tbSelectedAddress, tbHandle>>
    /\ StartRun("poll")
    /\ UNCHANGED <<detectionVars, composableVars>>

\* poll called from outside
TbPollCall(iv) ==
    /\ tbEvents < MaxBalanceEvents
    /\ tbEvents' = tbEvents + 1
    /\ TbPollToAwait(iv, {})

\* the timer callback: this.poll(this.config.interval)
TbTimerFires(t) ==
    /\ TbLoopIdle
    /\ t \in tbTimers
    /\ TbPollToAwait(tbInterval, {t})
    /\ UNCHANGED tbEvents

\* poll resumes only after an updateBalances in which no query failed
PollAfterFlawlessRun(p) == RunReturned(p) /\ ~updateRuns[p].failed

\* `await safelyExecute(() => this.updateBalances())` is over: the run has
\* returned, whatever its queries did
PollAfterSafelyExecute(p) == RunReturned(p)

\* poll after its await: the timer is armed
TbPollResume(p) ==
    /\ p \in tbPolls
    /\ PollAfterSafelyExecute(p)
    /\ \A q \in tbPolls : PollAfterSafelyExecute(q) => p <= q
    /\ tbHandle' = p
    /\ tbTimers' = tbTimers \cup {[id |-> p, interval |-> tbInterval]}
    /\ tbPolls' = tbPolls \ {p}
    /\ tbLast' = [TbNoStep EXCEPT !.op = "arm", !.run = p]
    /\ UNCHANGED <<tbDisabled, tbInterval, tbTokens, balanceError,
                   tbSelectedAddress, contractBalances, updateRuns, tbEvents>>
    /\ UNCHANGED <<detectionVars, composableVars>>

\* the onAssetStateChange listener
TbAssetStateChange(tokens) ==
    /\ tbEvents < MaxBalanceEvents
    /\ Len(updateRuns) < MaxRuns
    /\ tbEvents' = tbEvents + 1
    /\ tbTokens' = tokens
    /\ UNCHANGED <<tbDisabled, tbInterval, tbSelectedAddress, tbHandle,
                   tbTimers, tbPolls>>
    /\ StartRun("event")
    /\ UNCHANGED <<detectionVars, composableVars>>

\* the onPreferencesStateChange listener
TbPreferencesStateChange(address) ==
    /\ tbEvents < MaxBalanceEvents
    /\ address # tbSelectedAddress
    /\ tbEvents' = tbEvents + 1
    /\ tbSelectedAddress' = address
    /\ tbLast' = TbNoStep
    /\ UNCHANGED <<tbDisabled, tbInterval, tbTokens, balanceError,
                   contractBalances, tbHandle, tbTimers, tbPolls, updateRuns>>
    /\ UNCHANGED <<detectionVars, composableVars>>

\* BaseController.disabled set from outside
TbSetDisabled(flag) ==
    /\ tbEvents < MaxBalanceEvents
    /\ flag # tbDisabled
    /\ tbEvents' = tbEvents + 1
    /\ tbDisabled' = flag
    /\ tbLast' = TbNoStep
    /\ UNCHANGED <<tbInterval, tbTokens, balanceError, tbSelectedAddress,
                   contractBalances, tbHandle, tbTimers, tbPolls, updateRuns>>
    /\ UNCHANGED <<detectionVars, composableVars>>

\* the loop body without its try/catch: a query that throws ends the run,
\* nothing is recorded for the token and nothing more is queried
SettleQueryNoCatch(run, ok) ==
    LET address == run.tokens[run.i]
    IN IF ok
       THEN [threw |-> FALSE,
             balanceError |-> "null",
             run |-> [run EXCEPT
                         !.newContractBalances =
                             PutEntry(@, address, Balance(address, run.owner)),
                         !.i = @ + 1]]
       ELSE [threw |-> TRUE,
             balanceError |-> balanceError[address],
             run |-> [run EXCEPT !.failed = TRUE]]

\* the loop body after the await of the query for tokens[i]: the balance, or
\* 0 for a query that threw, is recorded with the token's balanceError, and
\* the loop goes on
SettleQuery(run, ok) ==
    LET address == run.tokens[run.i]
    IN [threw |-> FALSE,
        balanceError |-> IF ok THEN "null" ELSE "error",
        run |-> [run EXCEPT
                    !.newContractBalances =
                        PutEntry(@, address,
                                 IF ok THEN Balance(address, run.owner)
                                 ELSE ZeroBalance(address)),
                    !.i = @ + 1,
                    !.failed = @ \/ ~ok]]

\* the query of run r settles.  The run goes on to its next query, made for
\* the address selected now, or past its last token publishes its map; an
\* exception out of the loop would end it with nothing published.
QueryReturn(r, ok) ==
    /\ TbLoopIdle
    /\ r \in TbRuns
    /\ updateRuns[r].stage = "querying"
    /\ LET run == updateRuns[r]
           settled == SettleQuery(run, ok)
           after == settled.run
           publish == ~settled.threw /\ after.i > Len(run.tokens)
       IN /\ balanceError' =
               PutEntry(balanceError, run.tokens[run.i], settled.balanceError)
          /\ updateRuns' =
               [updateRuns EXCEPT ![r] =
                   IF settled.threw \/ publish
                   THEN [RunAt("over") EXCEPT !.by = run.by,
                                              !.failed = after.failed]
                   ELSE [after EXCEPT !.owner = tbSelectedAddress]]
          /\ contractBalances' =
               IF publish THEN after.newContractBalances ELSE contractBalances
          /\ tbLast' = [TbNoStep EXCEPT
                           !.op = "query",
                           !.run = r,
                           !.tokens = run.tokens,
                           !.i = run.i,
                           !.ok = ok,
                           !.newContractBalances = after.newContractBalances,
                           !.published = publish]
    /\ UNCHANGED <<tbDisabled, tbInterval, tbTokens, tbSelectedAddress,
                   tbHandle, tbTimers, tbPolls, tbEvents>>
    /\ UNCHANGED <<detectionVars, composableVars>>

\* ------------------------------------------------------------ specification
\* no pass of any cycle is running
Idle == \A c \in Cycles : ~TokenPassRunning(c) /\ ~CollPassRunning(c)

\* The scheduler and the token pass under every interleaving of timers, poll
\* calls, upstream events and settling calls.  The marketplace is out of
\* reach: the ownership fetch is rejected, or answers with a body that is no
\* JSON.
Next ==
    \/ \E iv \in PollIntervals : PollCall(iv)
    \/ \E t \in timers : TimerFires(t)
    \/ \E p \in pollAwaiting : PollResume(p)
    \/ \E address \in Owners : PreferencesStateChange(address)
    \/ \E type \in NetworkTypes : NetworkStateChange(type)
    \/ \E flag \in BOOLEAN : SetDisabled(flag)
    \/ \E payload \in AssetPayloads : AssetStateChange(payload)
    \/ \E c \in Cycles, threw \in BOOLEAN, balances \in SUBSET DOMAIN contractMap :
          BalancesReturn(c, threw, balances)
    \/ \E c \in Cycles, ok \in BOOLEAN : AddTokensReturn(c, ok)
    \/ \E c \in Cycles, outcome \in {"failed", "badjson"} :
          OwnerCollectiblesReturn(c, outcome, {})

Spec == Init /\ [][Next]_vars

\* The collectible pass against every marketplace answer, with the asset
\* store changing under it at any point.  The owner holds no registry token,
\* and the interval outlasts a cycle: a timer fires when no pass is running.
NextCollectibles ==
    \/ \E t \in timers : Idle /\ TimerFires(t)
    \/ \E p \in pollAwaiting : PollResume(p)
    \/ \E payload \in AssetPayloads : AssetStateChange(payload)
    \/ \E c \in Cycles : BalancesReturn(c, FALSE, {})
    \/ \E c \in Cycles, outcome \in {"ok", "failed", "badjson"}, assets \in Responses :
          OwnerCollectiblesReturn(c, outcome, assets)
    \/ \E c \in Cycles, item \in ReportedUniverse, ok \in BOOLEAN :
          AddCollectibleReturn(c, item, ok)

SpecCollectibles == Init /\ [][NextCollectibles]_vars

\* the AssetsDetectionController before its construction
NoDetectionController ==
    /\ networkType = MAINNET
    /\ disabled = FALSE
    /\ selectedAddress = ""
    /\ interval = DEFAULT_INTERVAL
    /\ configTokens = <<>>
    /\ assetsState = [collectibles |-> {}, ignoredCollectibles |-> {},
                      ignoredTokens |-> {}]
    /\ handle = 0
    /\ timers = {}
    /\ pollAwaiting = {}
    /\ cycleStart = <<>>
    /\ tokenPass = <<>>
    /\ collPass = <<>>
    /\ last = NoStep
    /\ prev = NoRun
    /\ events = 0

\* the state the TokenBalancesController constructor leaves: its poll() has
\* run up to its await
InitBalances ==
    /\ NoDetectionController
    /\ NoComposableController
    /\ tbDisabled \in BOOLEAN
    /\ tbInterval = DEFAULT_INTERVAL
    /\ tbTokens \in TokenLists
    /\ balanceError = [t \in TokenObjects |-> "undefined"]
    /\ tbSelectedAddress = "0xO1"
    /\ contractBalances = <<>>
    /\ tbHandle = 0
    /\ tbTimers = {}
    /\ tbPolls = {1}
    /\ updateRuns = <<updateBalances("poll")>>
    /\ tbLast = TbNoStep
    /\ tbEvents = 0

\* The TokenBalancesController under every interleaving of timers, poll
\* calls, upstream events and balance queries that answer or throw.
NextBalances ==
    \/ \E iv \in PollIntervals : TbPollCall(iv)
    \/ \E t \in tbTimers : TbTimerFires(t)
    \/ \E p \in tbPolls : TbPollResume(p)
    \/ \E tokens \in TokenLists : TbAssetStateChange(tokens)
    \/ \E address \in Owners : TbPreferencesStateChange(address)
    \/ \E flag \in BOOLEAN : TbSetDisabled(flag)
    \/ \E r \in TbRuns, ok \in BOOLEAN : QueryReturn(r, ok)

SpecBalances == InitBalances /\ [][NextBalances]_vars

\* ---------------------------------------------------- ComposableController
\* the children: their names, and the states a child can publish
ChildNames == <<"AssetsDetectionController", "TokenBalancesController">>
ChildStates == {"s0", "s1", "s2"}

\* Object.entries(controllers) of an array: its indices, as strings, with
\* its elements
ObjectEntries(arr) == {<<IndexKey(i), arr[i]>> : i \in 1..Len(arr)}

\* the initial state the constructor computes: the reduce over
\* Object.entries(controllers) sets state[name] for the name of each entry
InitialComposedState(list) ==
    [name \in {e[1] : e \in ObjectEntries(list)} |->
        (CHOOSE e \in ObjectEntries(list) : e[1] = name)[2].state]

\* the flatState getter
flatState ==
    [name \in {e[1] : e \in ObjectEntries(controllers)} |->
        (CHOOSE e \in ObjectEntries(controllers) : e[1] = name)[2].state]

\* the state the ComposableController constructor leaves
InitComposable ==
    /\ NoDetectionController
    /\ NoBalancesController
    /\ controllers \in
          {[i \in 1..Len(ChildNames) |-> [name |-> ChildNames[i], state |-> s[i]]] :
              s \in [1..Len(ChildNames) -> ChildStates]}
    /\ composed = InitialComposedState(controllers)
    /\ updates = 0

\* child i publishes a state: the listener the constructor subscribed runs
\* this.update({ [name]: state })
ChildUpdate(i, state) ==
    /\ updates < MaxUpdates
    /\ i \in 1..Len(controllers)
    /\ updates' = updates + 1
    /\ controllers' = [controllers EXCEPT ![i].state = state]
    /\ composed' = PutEntry(composed, controllers[i].name, state)
    /\ UNCHANGED <<detectionVars, balancesVars>>

NextComposable ==
    \E i \in 1..Len(ChildNames), state \in ChildStates : ChildUpdate(i, state)

SpecComposable == InitComposable /\ [][NextComposable]_vars

\* ------------------------------------------------------------------ polling
\* Either polling controller, constructed, with poll called from outside,
\* its timers firing, and the balance fetches, the balance queries and the
\* addTokens calls settling in every way.  No upstream event arrives.  The
\* AssetsDetectionController starts with an account selected, one
\* collectible tracked and nothing ignored; the marketplace fails or lists
\* nothing.
InitPolling ==
    \/ /\ Init
       /\ selectedAddress # ""
       /\ assetsState = [collectibles |-> {Collectible("0xDd", 1)},
                         ignoredCollectibles |-> {}, ignoredTokens |-> {}]
    \/ InitBalances

NextPolling ==
    \/ \E iv \in PollIntervals : cycleStart # <<>> /\ PollCall(iv)
    \/ \E t \in timers : TimerFires(t)
    \/ \E p \in pollAwaiting : PollResume(p)
    \/ \E c \in Cycles, threw \in BOOLEAN, balances \in SUBSET DOMAIN contractMap :
          BalancesReturn(c, threw, balances)
    \/ \E c \in Cycles, ok \in BOOLEAN : AddTokensReturn(c, ok)
    \/ \E c \in Cycles, outcome \in {"ok", "failed", "badjson"} :
          OwnerCollectiblesReturn(c, outcome, {})
    \/ \E iv \in PollIntervals : updateRuns # <<>> /\ TbPollCall(iv)
    \/ \E t \in tbTimers : TbTimerFires(t)
    \/ \E p \in tbPolls : TbPollResume(p)
    \/ \E r \in TbRuns, ok \in BOOLEAN : QueryReturn(r, ok)

\* the event loop runs every continuation that is ready, and every balance
\* query settles
FairPolling ==
    /\ \A p \in 1..MaxCycles : WF_vars(PollResume(p))
    /\ \A p \in 1..MaxRuns : WF_vars(TbPollResume(p))
    /\ \A r \in 1..MaxRuns : WF_vars(\E ok \in BOOLEAN : QueryReturn(r, ok))

SpecPolling == InitPolling /\ [][NextPolling]_vars /\ FairPolling

\* ------------------------------------------------------------------ claims
\* the tracked collectibles of a snapshot that a marketplace answer does not
\* list, addresses compared in checksum form and token ids as integers
NotReported(snapshot, reported) ==
    {c \in snapshot :
        ~\E item \in reported :
            /\ toChecksumAddress(item.address) = c.address
            /\ Number(item.token_id) = c.tokenId}

CollStepOps == {"fetched", "added"}

\* C1: a collectible pass whose ownership fetch failed (network error or
\* timeout) calls removeCollectible for no collectible
C1_FailedFetchRemovesNothing ==
    (last.op = "fetched" /\ last.fetch = "failed") => last.removeCalls = {}

\* C2: a collectible pass whose ownership fetch succeeded ends having called
\* removeCollectible for exactly the collectibles of its snapshot that the
\* answer does not list
C2_RemovesExactlyUnreported ==
    (last.op \in CollStepOps /\ last.fetch = "ok" /\ last.ended # "no") =>
        last.removeCalls = NotReported(last.snapshot, last.reported)

\* C3: no addCollectible call of a pass is for a pair that is in the
\* collectible ignore-list, the address compared in checksum form
C3_IgnoredNeverAdded ==
    last.op = "fetched" =>
        \A call \in last.addCalls :
            Collectible(toChecksumAddress(call.address), call.tokenId)
                \notin assetsState.ignoredCollectibles

\* C3 witness: the marketplace reported an ignored pair, in lower case, and
\* the pass made no call for it
C3_Witness ==
    /\ last.op = "fetched"
    /\ last.fetch = "ok"
    /\ \E item \in last.reported :
          /\ item.address # toChecksumAddress(item.address)
          /\ Collectible(toChecksumAddress(item.address), Number(item.token_id))
                \in assetsState.ignoredCollectibles
          /\ AddCall(item) \notin last.addCalls

\* the addresses of the token ignore-list
IgnoredTokenAddresses == {token.address : token \in assetsState.ignoredTokens}

\* the tokens a balance map stages: those whose checksum address is not ignored
Staged(balances) ==
    {a \in balances : toChecksumAddress(a) \notin IgnoredTokenAddresses}

\* C4: no batch passed to addTokens holds a token whose checksum address is
\* in the token ignore-list, and when every address with a balance is ignored
\* addTokens is not called
C4_IgnoredTokenNeverAdded ==
    last.op = "balances" =>
        /\ \A i \in 1..Len(last.batches) : \A a \in last.batches[i] :
              toChecksumAddress(a) \notin IgnoredTokenAddresses
        /\ Staged(last.balances) = {} => last.batches = <<>>

\* C4 witness: the only balance reported is for an ignored token, and the
\* pass ended without a call
C4_Witness ==
    /\ last.op = "balances"
    /\ last.outcome = "ok"
    /\ last.balances # {}
    /\ Staged(last.balances) = {}
    /\ last.batches = <<>>

\* C5: a collectible pass that follows another one, with the tracked set as
\* that one left it, the same marketplace answer and the same ignore-list
\* (and the asset store changed by nobody else), calls neither addCollectible
\* nor removeCollectible
C5_SecondRunCallsNothing ==
    (/\ last.op \in CollStepOps
     /\ last.fetch = "ok"
     /\ events = 0
     /\ last.follows.valid
     /\ last.follows.reported = last.reported
     /\ last.follows.ignoredSeen = last.ignoredSeen) =>
        last.addCalls = {} /\ last.removeCalls = {}

\* C6: for a reported item that is a tracked collectible up to the case of
\* its address and the spelling of its token id, the pass calls neither
\* addCollectible nor removeCollectible
C6_TrackedItemUntouched ==
    (last.op \in CollStepOps /\ last.fetch = "ok") =>
        \A item \in last.reported :
            LET c == Collectible(toChecksumAddress(item.address),
                                 Number(item.token_id))
            IN (item.address # c.address /\ c \in last.snapshot) =>
                  AddCall(item) \notin last.addCalls /\ c \notin last.removeCalls

TokenAddresses(tokens) == {tokens[i].address : i \in 1..Len(tokens)}

\* C7: a token pass makes at most one addTokens call, its batch holding every
\* staged token, and no call when nothing is staged; it removes nothing, so
\* every token tracked before the store call is tracked after it
C7_OneBatchNoRemoval ==
    /\ last.op = "balances" =>
          /\ Len(last.batches) <= 1
          /\ last.batches =
                IF last.outcome = "ok" /\ Staged(last.balances) # {}
                THEN <<Staged(last.balances)>> ELSE <<>>
    /\ last.op \in {"balances", "addTokens"} =>
          /\ last.removeCalls = {}
          /\ TokenAddresses(last.tokensBefore) \subseteq TokenAddresses(configTokens)
    /\ \A c \in Cycles : Len(tokenPass[c].batches) <= 1

\* C7 witness: two tokens were staged and went out in one batch
C7_Witness ==
    /\ last.op = "balances"
    /\ Len(last.batches) = 1
    /\ Cardinality(last.batches[1]) = 2

\* C8: a cycle that started off mainnet, disabled or with no selected address
\* issues no fetch and no store call: both its passes returned at their gates
C8_GatedCycleDoesNothing ==
    \A c \in Cycles :
        (~cycleStart[c].mainnet \/ cycleStart[c].disabled \/ cycleStart[c].owner = "") =>
            /\ tokenPass[c].stage = "skipped"
            /\ collPass[c].stage = "skipped"
            /\ last.cycle = c => last.op = "arm"

\* C8 witness: a poll found the network off mainnet, and went on to arm its
\* timer
C8_Witness ==
    \E c \in Cycles :
        /\ ~cycleStart[c].mainnet
        /\ collPass[c].stage = "skipped"
        /\ last.op = "arm"
        /\ last.cycle = c

CycleRunning(c) == TokenPassRunning(c) \/ CollPassRunning(c)

\* C9: at most one detection cycle is in flight
C9_OneCycleInFlight ==
    Cardinality({c \in Cycles : CycleRunning(c)}) <= 1

\* C10: when poll arms the timer, both passes of the cycle it started have
\* completed
C10_ArmedAfterPasses ==
    last.op = "arm" => ~CycleRunning(last.cycle)

\* C11: an account change (the preferences listener sets another
\* selectedAddress) cancels the pending poll timer: no timer armed before the
\* event is pending after it
C11_AccountChangeCancelsTimer ==
    [][selectedAddress' # selectedAddress => timers' \cap timers = {}]_vars

\* the store calls a step issued: the addTokens batches of a token pass, the
\* addCollectible calls of the step that got the marketplace answer, the
\* removeCollectible calls of any step of a collectible pass
StoreCallsIssued ==
    \/ last.op = "balances" /\ last.batches # <<>>
    \/ last.op = "fetched" /\ last.addCalls # {}
    \/ last.op \in CollStepOps /\ last.removeCalls # {}

\* C12: a step issues store calls only while the selected address is the one
\* its pass was started for: never once another address has been selected
C12_StaleResultsDiscarded ==
    (StoreCallsIssued /\ selectedAddress # "") =>
        cycleStart[last.cycle].owner = selectedAddress

\* the step that follows issues removeCollectible calls
RemovesNext == last'.op \in CollStepOps /\ last'.removeCalls # {}

\* every addCollectible call of the pass has completed when the step that
\* follows has run: none was made by that step, and none but the one it
\* settles was pending before it
AddsCompletedNext ==
    /\ last'.op = "fetched" => last'.addCalls = {}
    /\ Cardinality(collPass[last'.cycle].pending) <=
          IF last'.op = "added" THEN 1 ELSE 0

\* a pair that the pass both passed to addCollectible and to removeCollectible
AddedAndRemoved(step) ==
    {r \in step.removeCalls :
        \E call \in step.addCalls :
            /\ toChecksumAddress(call.address) = r.address
            /\ call.tokenId = r.tokenId}

\* C15: a collectible pass issues removeCollectible calls only once every
\* addCollectible call it made has completed, and never for a pair it passed
\* to addCollectible
C15_RemovalAfterAllAdds ==
    [][RemovesNext => AddsCompletedNext /\ AddedAndRemoved(last') = {}]_vars

\* the registry addresses flagged ERC-20 that are the address of no token of
\* a token list, addresses compared in checksum form
UntrackedErc20(tokens) ==
    {a \in DOMAIN contractMap :
        /\ contractMap[a].erc20
        /\ toChecksumAddress(a) \notin
              {toChecksumAddress(t) : t \in TokenAddresses(tokens)}}

\* C16: a token pass that starts sends to the balance fetch exactly the
\* registry's ERC-20 addresses that are not tracked
C16_CandidatesExcludeTracked ==
    [][Len(tokenPass') > Len(tokenPass) =>
          LET p == tokenPass'[Len(tokenPass')]
          IN p.stage = "fetching" => p.candidates = UntrackedErc20(configTokens')]_vars

\* C17: a collectible pass makes no addCollectible call for a reported item
\* whose token_id is no integer, and makes the calls for the other items
C17_InvalidTokenIdDropped ==
    (last.op = "fetched" /\ last.fetch = "ok") =>
        /\ \A call \in last.addCalls : call.tokenId # NaN
        /\ \A item \in last.reported :
              (Number(item.token_id) # NaN /\ ~IgnoredCollectible(item)) =>
                  AddCall(item) \in last.addCalls

\* the step that follows settles the last addCollectible call of a pass in
\* which a call has failed
FailedPassSettlesNext ==
    /\ last'.op = "added"
    /\ collPass'[last'.cycle].stage = "over"
    /\ collPass[last'.cycle].stage = "failed" \/ last'.outcome = "failed"

\* C18: a pass in which an addCollectible call failed still runs its
\* tombstone step: when the last of its calls has settled it has called
\* removeCollectible for the collectibles of its snapshot that were not
\* reported
C18_AddFailureIsolated ==
    [][FailedPassSettlesNext =>
          last'.removeCalls = NotReported(last'.snapshot, last'.reported)]_vars

\* C20: at most one poll timer is pending
C20_OnePendingTimer == Cardinality(timers) <= 1

\* the addresses of a token list of the TokenBalancesController
AddressesOf(tokens) == {tokens[k] : k \in 1..Len(tokens)}

\* C19: in updateBalances, a query that fails records balance 0 for its token
\* and sets the token's balanceError, a query that succeeds clears it, the
\* next token is queried either way, and after the last token the published
\* contractBalances has an entry for every address of the run's token list
C19_QueryFailureIsolated ==
    tbLast.op = "query" =>
        LET address == tbLast.tokens[tbLast.i]
            recorded == tbLast.newContractBalances
        IN /\ address \in DOMAIN recorded
           /\ recorded[address].failed = ~tbLast.ok
           /\ balanceError[address] = IF tbLast.ok THEN "null" ELSE "error"
           /\ tbLast.i < Len(tbLast.tokens) =>
                 /\ updateRuns[tbLast.run].stage = "querying"
                 /\ updateRuns[tbLast.run].i = tbLast.i + 1
           /\ tbLast.i = Len(tbLast.tokens) =>
                 /\ tbLast.published
                 /\ contractBalances = recorded
                 /\ DOMAIN contractBalances = AddressesOf(tbLast.tokens)

\* C19 witness: a run over two tokens published a map in which one balance is
\* the 0 of a failed query and the other the answer of a query
C19_Witness ==
    /\ tbLast.op = "query"
    /\ tbLast.published
    /\ \E a, b \in DOMAIN contractBalances :
          contractBalances[a].failed /\ ~contractBalances[b].failed

\* C14: the composed state has, under the name of each child, the state that
\* child published last
C14_ComposedStateIsLatest ==
    \A i \in 1..Len(controllers) :
        /\ controllers[i].name \in DOMAIN composed
        /\ composed[controllers[i].name] = controllers[i].state

\* poll call p of the AssetsDetectionController has just armed its timer, for
\* the configured interval
Armed(p) ==
    /\ last.op = "arm"
    /\ last.cycle = p
    /\ [id |-> p, interval |-> interval] \in timers

\* poll call p of the TokenBalancesController has just armed its timer, for
\* the configured interval
TbArmed(p) ==
    /\ tbLast.op = "arm"
    /\ tbLast.run = p
    /\ [id |-> p, interval |-> tbInterval] \in tbTimers

\* C13: every poll call, of either controller, goes on to arm a timer for the
\* configured interval, whatever the external calls of its cycle do
C13_PollArmsTimer ==
    /\ \A p \in 1..MaxCycles : (p \in pollAwaiting) ~> Armed(p)
    /\ \A p \in 1..MaxRuns : (p \in tbPolls) ~> TbArmed(p)

\* C13 witness: a poll of the TokenBalancesController armed its timer after
\* an updateBalances in which a query failed
C13_Witness ==
    /\ tbLast.op = "arm"
    /\ updateRuns[tbLast.run].failed
    /\ TbArmed(tbLast.run)

\* every updateBalances call has returned, and the one made last has
\* published
RunsCompleted ==
    /\ \A r \in TbRuns : RunReturned(r)
    /\ updateRuns # <<>>
    /\ updateRuns[Len(updateRuns)].stage = "over"

\* the accounts the published balances were queried for
PublishedOwners ==
    {contractBalances[a].owner :
        a \in {b \in DOMAIN contractBalances : ~contractBalances[b].failed}}
      \ {""}

\* C21: once every updateBalances run has completed, contractBalances has
\* exactly the addresses of config.tokens (no earlier-started run has
\* overwritten the result of the run started last), and no published
\* contractBalances holds balances of two owner addresses
C21_OverlappingRunsConsistent ==
    /\ RunsCompleted => DOMAIN contractBalances = AddressesOf(tbTokens)
    /\ Cardinality(PublishedOwners) <= 1

====
